---- MODULE Spec2Model ----
(***************************************************************************)
(* A model of gcbmanimation's raster pipeline: Units, Layer and its        *)
(* copy-producing transformations, BoundingBox, LayerCollection.blend and  *)
(* LayerCollection.render with its worker pool.                            *)
(*                                                                         *)
(* Pixel values are exact rationals <<n, d>> (d > 0, lowest terms), so the *)
(* scale ratios 1e3, 1e-3, 1e6, ... of the unit conversions are exact.     *)
(* A raster file is a record [nodata, px, metres, pixel_size]; px is the   *)
(* sequence of its pixels.  A Layer object is a record                     *)
(* [path, year, interpretation, units]; path is an index into files.       *)
(***************************************************************************)
EXTENDS Integers, Sequences, FiniteSets, TLC

VARIABLES
    heap,       \* the Layer objects constructed so far (object id = index)
    born,       \* ghost: each object as its constructor left it
    files,      \* the raster artifacts on disk (path = index)
    last,       \* ghost: the last call made on a Layer and what it returned
    inp,        \* the arguments of the call considered
    out,        \* its result
    collection, \* LayerCollection._layers: the ids of the collection's layers
    box,        \* the caller's BoundingBox object, and ghost: the runs of _init
    pool,       \* the tasks of the worker pool's current stage
    rs          \* the locals of the running LayerCollection.render

vars == <<heap, born, files, last, inp, out, collection, box, pool, rs>>

\* what the specifications without a collection leave as it is
NoCollection ==
    /\ collection = <<>>
    /\ box = <<>>
    /\ pool = <<>>
    /\ rs = <<>>

\* ------------------------------------------------------------------ bounds

\* the number of calls made on the Layer objects of SpecLayer
MaxCalls == 1

\* ------------------------------------------------------- exact arithmetic

\* The value of a local variable, computed once: x of Only({e(x) : x \in {v}})
\* is the variable, v the value assigned to it and e what follows.
Only(S) == CHOOSE x \in S : TRUE

Abs(x) == IF x < 0 THEN 0 - x ELSE x

RECURSIVE Gcd(_, _)
Gcd(a, b) == IF b = 0 THEN a ELSE Gcd(b, a % b)

Rat(n, d) ==
    LET s == IF d < 0 THEN 0 - 1 ELSE 1
        g == Gcd(Abs(n), Abs(d))
    IN  <<(s * n) \div g, (s * d) \div g>>

R(n) == <<n, 1>>

RMul(x, y) ==
    LET a == Rat(x[1], y[2])
        b == Rat(y[1], x[2])
    IN  Rat(a[1] * b[1], a[2] * b[2])

RDiv(x, y) == RMul(x, Rat(y[2], y[1]))

RAdd(x, y) ==
    LET g == Gcd(x[2], y[2])
        l == (x[2] \div g) * y[2]
    IN  Rat(x[1] * (l \div x[2]) + y[1] * (l \div y[2]), l)

RNeg(x) == <<0 - x[1], x[2]>>

\* A numpy boolean used as a number.
B2R(b) == IF b THEN R(1) ELSE R(0)

\* ------------------------------------------------------------------ Units

Units == {"Blank", "Tc", "Ktc", "Mtc", "TcPerHa", "KtcPerHa", "MtcPerHa"}

\* Units.value, unpacked as (per_ha, units_tc, units_name) by convert_units.
UnitsValue(u) ==
    CASE u = "Blank"    -> [per_ha |-> FALSE, tc |-> 1]
      [] u = "Tc"       -> [per_ha |-> FALSE, tc |-> 1]
      [] u = "Ktc"      -> [per_ha |-> FALSE, tc |-> 1000]
      [] u = "Mtc"      -> [per_ha |-> FALSE, tc |-> 1000000]
      [] u = "TcPerHa"  -> [per_ha |-> TRUE,  tc |-> 1]
      [] u = "KtcPerHa" -> [per_ha |-> TRUE,  tc |-> 1000]
      [] u = "MtcPerHa" -> [per_ha |-> TRUE,  tc |-> 1000000]

\* unit_conversion = current_units_tc / new_units_tc
UnitConversion(cur, new) == Rat(UnitsValue(cur).tc, UnitsValue(new).tc)

\* --------------------------------------------------------- interpretations

\* An interpretation is None or a dict of pixel value -> label, kept in
\* insertion order as a sequence of <<key, label>> pairs.  A label is its
\* rank in the lexicographic order of the label strings.
NoInterpretation == [none |-> TRUE, items |-> <<>>]

Dict(items) == [none |-> FALSE, items |-> items]

Keys(d) == {d.items[i][1] : i \in DOMAIN d.items}

Values(d) == {d.items[i][2] : i \in DOMAIN d.items}

\* d[k] for a key of d
Lookup(d, k) == (CHOOSE i \in DOMAIN d.items : d.items[i][1] = k) 

Get(d, k) == d.items[Lookup(d, k)][2]

SetMax(S) == CHOOSE m \in S : \A x \in S : x <= m

\* {v: k for k, v in d.items()}: of several keys with one label the last wins
Inverse(d, label) ==
    d.items[SetMax({i \in DOMAIN d.items : d.items[i][2] = label})][1]

\* ---------------------------------------------------------- raster engine

one_hectare == 10000

\* gdal_calc.Calc: the expression is evaluated per pixel, and every pixel
\* at which some input raster holds its own nodata value is then set to the
\* output's NoDataValue.
GdalCalc(calc, masked, NoDataValue) ==
    [i \in DOMAIN calc |-> IF masked[i] THEN NoDataValue ELSE calc[i]]

\* Layer._save_as: a copy of the original raster with new data and nodata
SaveAs(original, data, nodata_value) ==
    [original EXCEPT !.px = data, !.nodata = nodata_value]

\* The ground area in hectares of pixel i of a raster in a projection whose
\* unit is not the metre: geodesic height x width at the pixel's latitude.
PixelSizeHa(i) == R(i + 1)

\* ------------------------------------------------------------------ Layer

Layer(path, year, interpretation, units) ==
    [path |-> path, year |-> year, interpretation |-> interpretation,
     units |-> units]

\* The result of a call: the heap and the files after it, the object it
\* returned (0: it raised) and the error it raised.
Returned(hp, fs, ret) == [heap |-> hp, files |-> fs, ret |-> ret, error |-> "none"]

Raised(hp, fs, error) == [heap |-> hp, files |-> fs, ret |-> 0, error |-> error]

IsNoopConversionScaleOnly(cur, new) ==
    UnitConversion(cur, new) = R(1)

\* convert_units returns self when the scale and the area type do not change.
IsNoopConversion(cur, new) ==
    /\ UnitsValue(cur).per_ha = UnitsValue(new).per_ha
    /\ UnitConversion(cur, new) = R(1)

\* (A * factor) * (A != nodata) + ((A == nodata) * nodata)
SimpleConversionCalc(a, factor, nodata) ==
    RAdd(RMul(RMul(a, factor), B2R(a # nodata)), RMul(B2R(a = nodata), nodata))

\* The pixels convert_units writes for a raster in units cur.
ConvertedPixels(raster, cur, new) ==
    LET current_per_ha == UnitsValue(cur).per_ha
        new_per_ha == UnitsValue(new).per_ha
        unit_conversion == UnitConversion(cur, new)
        per_ha_modifier == Rat(raster.pixel_size * raster.pixel_size, one_hectare)
        factor == IF current_per_ha = new_per_ha THEN unit_conversion
                  ELSE IF current_per_ha THEN RMul(unit_conversion, per_ha_modifier)
                  ELSE RDiv(unit_conversion, per_ha_modifier)
    IN  IF current_per_ha = new_per_ha \/ raster.metres
        THEN GdalCalc([i \in DOMAIN raster.px |->
                          SimpleConversionCalc(raster.px[i], factor, raster.nodata)],
                      [i \in DOMAIN raster.px |-> raster.px[i] = raster.nodata],
                      raster.nodata)
        ELSE [i \in DOMAIN raster.px |->
                 IF raster.px[i] # raster.nodata
                 THEN RMul(unit_conversion,
                           IF current_per_ha THEN RMul(raster.px[i], PixelSizeHa(i))
                           ELSE RDiv(raster.px[i], PixelSizeHa(i)))
                 ELSE raster.px[i]]

convert_units(hp, fs, self, units) ==
    IF hp[self].units = "Blank" THEN Returned(hp, fs, self)
    ELSE IF IsNoopConversion(hp[self].units, units)
    THEN Returned([hp EXCEPT ![self].units = units], fs, self)
    ELSE LET raster == fs[hp[self].path]
             output == [raster EXCEPT !.px = ConvertedPixels(raster, hp[self].units, units)]
         IN  Returned(Append(hp, Layer(Len(fs) + 1, hp[self].year,
                                       hp[self].interpretation, units)),
                      Append(fs, output), Len(hp) + 1)

\* The remapping loop of reclassify over the items of the old interpretation
\* from position k on, for one pixel.
RECURSIVE RemapPixel(_, _, _, _, _, _)
RemapPixel(p, k, old, new, collision_offset, nodata_value) ==
    IF k > Len(old.items) THEN p
    ELSE LET original_pixel_value == old.items[k][1]
             interpreted_value == old.items[k][2]
             new_pixel_value == IF interpreted_value \in Values(new)
                                THEN R(Inverse(new, interpreted_value))
                                ELSE nodata_value
             q == IF p = RAdd(R(original_pixel_value), R(collision_offset))
                  THEN new_pixel_value ELSE p
         IN  RemapPixel(q, k + 1, old, new, collision_offset, nodata_value)

\* The pixels reclassify writes.
ReclassifiedPixels(px, old, new, nodata_value) ==
    LET collision_offset == SetMax(Keys(old) \cup Keys(new)) + 1
        uninterpreted(p) == \A key \in Keys(old) : p # R(key)
        step1 == [i \in DOMAIN px |-> IF uninterpreted(px[i]) THEN nodata_value ELSE px[i]]
        step2 == [i \in DOMAIN px |-> IF step1[i] # nodata_value
                                      THEN RAdd(step1[i], R(collision_offset))
                                      ELSE step1[i]]
    IN  [i \in DOMAIN px |-> RemapPixel(step2[i], 1, old, new, collision_offset, nodata_value)]

reclassify(hp, fs, self, new_interpretation, nodata_value) ==
    IF hp[self].interpretation.none THEN Raised(hp, fs, "AttributeError")
    ELSE LET raster == fs[hp[self].path]
             data == ReclassifiedPixels(raster.px, hp[self].interpretation,
                                        new_interpretation, nodata_value)
         IN  Returned(Append(hp, Layer(Len(fs) + 1, hp[self].year,
                                       new_interpretation, hp[self].units)),
                      Append(fs, SaveAs(raster, data, nodata_value)), Len(hp) + 1)

FlattenedPixels(raster, flattened_value) ==
    [i \in DOMAIN raster.px |->
        IF raster.px[i] # raster.nodata THEN flattened_value ELSE raster.px[i]]

flatten(hp, fs, self, flattened_value, preserve_units) ==
    LET raster == fs[hp[self].path]
    IN  Returned(Append(hp, Layer(Len(fs) + 1, hp[self].year, NoInterpretation,
                                  IF preserve_units THEN hp[self].units ELSE "Blank")),
                 Append(fs, SaveAs(raster, FlattenedPixels(raster, flattened_value),
                                   raster.nodata)),
                 Len(hp) + 1)

\* gdal.Warp resamples: the model keeps of a warped raster that each pixel
\* holds the source's value there or nodata, which of the two is the
\* argument `kept`.
Warped(raster, kept) ==
    [raster EXCEPT !.px = [i \in DOMAIN raster.px |->
                              IF kept[i] THEN raster.px[i] ELSE raster.nodata]]

reproject(hp, fs, self, kept) ==
    Returned(Append(hp, Layer(Len(fs) + 1, hp[self].year, hp[self].interpretation,
                              hp[self].units)),
             Append(fs, Warped(fs[hp[self].path], kept)), Len(hp) + 1)


\* blend_layers of Layer.blend: zip(layers[::2], layers[1::2]) pairs the
\* arguments (positions 1, 3, .. are layers, 2, 4, .. blend modes) and each
\* paired layer is converted to self's units, in turn.  acc collects the
\* converted layers.
RECURSIVE BlendLayers(_, _, _, _, _, _)
BlendLayers(hp, fs, units, layers, k, acc) ==
    IF k > Len(layers) \div 2 THEN [heap |-> hp, files |-> fs, blend_layers |-> acc]
    ELSE Only({BlendLayers(c.heap, c.files, units, layers, k + 1,
                           Append(acc, [layer |-> c.heap[c.ret],
                                        blend_mode |-> layers[2 * k]])) :
                  c \in {convert_units(hp, fs, layers[2 * k - 1], units)}})

\* (A +- B +- ..) of the blend expression at pixel i, from operand k on
RECURSIVE BlendSum(_, _, _, _, _)
BlendSum(a, fs, blend_layers, k, i) ==
    IF k > Len(blend_layers) THEN a
    ELSE LET b == fs[blend_layers[k].layer.path].px[i]
         IN  BlendSum(RAdd(a, IF blend_layers[k].blend_mode = "+" THEN b ELSE RNeg(b)),
                      fs, blend_layers, k + 1, i)

\* The pixels Layer.blend writes:
\* (A +- B ..) * (A != nodata) * (B != B's nodata) * ..
BlendedPixels(raster, fs, blend_layers) ==
    LET valid(k, i) == fs[blend_layers[k].layer.path].px[i]
                         # fs[blend_layers[k].layer.path].nodata
        allvalid(i) == raster.px[i] # raster.nodata
                         /\ \A k \in DOMAIN blend_layers : valid(k, i)
    IN  GdalCalc([i \in DOMAIN raster.px |->
                     RMul(BlendSum(raster.px[i], fs, blend_layers, 1, i),
                          B2R(allvalid(i)))],
                 [i \in DOMAIN raster.px |-> ~allvalid(i)],
                 raster.nodata)

\* Layer.blend.  The converted copies of the operands are temporaries: of
\* the objects it constructs only the blended layer is returned.
blend(hp, fs, self, layers) ==
    Only({LET kept == SubSeq(b.heap, 1, Len(hp))
              raster == b.files[hp[self].path]
              output == [raster EXCEPT
                            !.px = BlendedPixels(raster, b.files, b.blend_layers)]
          IN  IF Len(b.blend_layers) = 0 THEN Raised(kept, b.files, "SyntaxError")
              ELSE Returned(Append(kept, Layer(Len(b.files) + 1, kept[self].year,
                                               kept[self].interpretation,
                                               kept[self].units)),
                            Append(b.files, output), Len(kept) + 1) :
             b \in {BlendLayers(hp, fs, hp[self].units, layers, 1, <<>>)}})


\* ===================================================== SpecLayer ==========
\* Two Layer objects over two source rasters, and calls of the Layer
\* transformations on them and on the objects those calls return.

Interpretations == {Dict(<<<<1, 1>>, <<2, 2>>>>), Dict(<<<<1, 2>>, <<3, 3>>>>)}

SourceFiles ==
    << [nodata |-> R(0), px |-> <<R(0), R(2)>>, metres |-> TRUE, pixel_size |-> 200],
       [nodata |-> R(0 - 1), px |-> <<R(3), R(0 - 1)>>, metres |-> FALSE, pixel_size |-> 1] >>

NoCall == [op |-> "none", self |-> 0, before |-> <<>>, args |-> <<>>, ret |-> 0,
           error |-> "none", nfiles |-> 0, ncalls |-> 0]

InitLayer ==
    /\ files = SourceFiles
    /\ \E i1 \in Interpretations \cup {NoInterpretation}, u1 \in Units,
          u2 \in {"Blank", "Tc", "KtcPerHa"} :
          heap = <<Layer(1, 1, i1, u1), Layer(2, 2, NoInterpretation, u2)>>
    /\ born = heap
    /\ last = NoCall
    /\ inp = <<>>
    /\ out = <<>>
    /\ NoCollection

\* The objects alive before the call keep their ids; what the call
\* constructed and returned is new, and born as the constructor left it.
Apply(op, self, args, r) ==
    /\ heap' = r.heap
    /\ files' = r.files
    /\ born' = born \o SubSeq(r.heap, Len(heap) + 1, Len(r.heap))
    /\ last' = [op |-> op, self |-> self, before |-> heap, args |-> args,
                ret |-> r.ret, error |-> r.error, nfiles |-> Len(files),
                ncalls |-> last.ncalls + 1]
    /\ UNCHANGED <<inp, out, collection, box, pool, rs>>

Call(op, self, args, r) ==
    /\ last.ncalls < MaxCalls
    /\ Apply(op, self, args, r)

CallConvertUnits ==
    \E self \in DOMAIN heap, units \in Units :
        Call("convert_units", self, <<units>>, convert_units(heap, files, self, units))

CallReclassify ==
    \E self \in DOMAIN heap, new_interpretation \in Interpretations :
        Call("reclassify", self, <<new_interpretation>>,
             reclassify(heap, files, self, new_interpretation, R(0)))

CallFlatten ==
    \E self \in DOMAIN heap, flattened_value \in {0, 1}, preserve_units \in BOOLEAN :
        Call("flatten", self, <<flattened_value, preserve_units>>,
             flatten(heap, files, self, R(flattened_value), preserve_units))

CallReproject ==
    \E self \in DOMAIN heap, kept \in {<<TRUE, TRUE>>, <<TRUE, FALSE>>} :
        Call("reproject", self, <<kept>>, reproject(heap, files, self, kept))

BlendArguments ==
    {<<l, m>> : l \in DOMAIN heap, m \in {"+", "-"}}
        \cup {<<l, "+", k>> : l, k \in DOMAIN heap}
        \cup {<<l>> : l \in DOMAIN heap}

CallBlend ==
    \E self \in DOMAIN heap, layers \in BlendArguments :
        Call("blend", self, layers, blend(heap, files, self, layers))

NextLayer ==
    \/ CallConvertUnits
    \/ CallReclassify
    \/ CallFlatten
    \/ CallReproject
    \/ CallBlend

SpecLayer == InitLayer /\ [][NextLayer]_vars


\* C7: layers are immutable under their transformations: whatever calls of
\* convert_units, reclassify, flatten, reproject and blend were made, every
\* Layer object, receiver or operand, still has the path, year,
\* interpretation and units it was constructed with.
C7_LayersImmutable ==
    \A o \in DOMAIN born : heap[o] = born[o]

MaxKey == 2

KeyRange == 0 .. MaxKey

Labels == {1, 2}

\* the dicts of one or two items with keys in K
Dicts(K) ==
    {Dict(<<<<k, l>>>>) : k \in K, l \in Labels}
        \cup {Dict(<<<<k[1], l1>>, <<k[2], l2>>>>) :
                 k \in {k \in K \X K : k[1] # k[2]},
                 l1 \in Labels, l2 \in Labels}

InitReclassify ==
    /\ \E p \in 0 .. MaxKey + 1, nodata \in {0, MaxKey + 1} :
          files = <<[nodata |-> R(nodata), px |-> <<R(p)>>, metres |-> TRUE,
                     pixel_size |-> 100]>>
    /\ \E old \in Dicts(KeyRange) : heap = <<Layer(1, 1, old, "Blank")>>
    /\ born = heap
    /\ last = NoCall
    /\ \E new \in Dicts(KeyRange \ {0}), nodata_value \in {0, MaxKey + 1} :
          inp = [new_interpretation |-> new, nodata_value |-> R(nodata_value)]
    /\ out = <<>>
    /\ NoCollection

Reclassify ==
    /\ last.op = "none"
    /\ Apply("reclassify", 1, <<inp.new_interpretation, inp.nodata_value>>,
             reclassify(heap, files, 1, inp.new_interpretation, inp.nodata_value))

NextReclassify == Reclassify

SpecReclassify == InitReclassify /\ [][NextReclassify]_vars

\* The raster a call read and the raster it wrote.
Original == files[last.before[last.self].path]

Output == files[heap[last.ret].path]

\* C5: reclassify maps every pixel by label: a pixel whose value is a key of
\* the current interpretation with label L becomes a key of
\* new_interpretation with label L, or nodata_value when L has none; a pixel
\* whose value is no key of the current interpretation becomes nodata_value.
C5_ReclassifyByLabel ==
    last.op = "reclassify" =>
        LET old == last.before[last.self].interpretation
            new == last.args[1]
            nodata_value == last.args[2]
        IN  \A i \in DOMAIN Original.px :
               IF \E k \in Keys(old) : Original.px[i] = R(k)
               THEN LET k == CHOOSE k \in Keys(old) : Original.px[i] = R(k)
                    IN  IF Get(old, k) \in Values(new)
                        THEN \E n \in Keys(new) : /\ Get(new, n) = Get(old, k)
                                                  /\ Output.px[i] = R(n)
                        ELSE Output.px[i] = nodata_value
               ELSE Output.px[i] = nodata_value

\* C6: after reclassify every pixel is the destination nodata value or a key
\* of new_interpretation, and a pixel is nodata only if its original value
\* was no key of the current interpretation, or had a label absent from
\* new_interpretation, or was nodata in the original raster.
C6_ReclassifyNodataOnlyIfUnmapped ==
    last.op = "reclassify" =>
        LET old == last.before[last.self].interpretation
            new == last.args[1]
            nodata_value == last.args[2]
            unmapped(p) == \A k \in Keys(old) :
                              p = R(k) => Get(old, k) \notin Values(new)
        IN  \A i \in DOMAIN Original.px :
               /\ \/ Output.px[i] = nodata_value
                  \/ \E n \in Keys(new) : Output.px[i] = R(n)
               /\ Output.px[i] = nodata_value =>
                     \/ unmapped(Original.px[i])
                     \/ Original.px[i] = Original.nodata


\* ======================================================= SpecBlend ========
\* Layer.blend as a function of the base layer, two operand layers and the
\* argument list.

\* the pixel values are -1 .. MaxValue
MaxValue == 2

Pixels == (0 - 1) .. MaxValue

NodataValues == {0, 0 - 1}

InitBlend ==
    /\ \E p1, p2, p3 \in Pixels, n1, n2, n3 \in NodataValues, metres \in BOOLEAN :
          files = << [nodata |-> R(n1), px |-> <<R(p1)>>, metres |-> TRUE,
                      pixel_size |-> 100],
                     [nodata |-> R(n2), px |-> <<R(p2)>>, metres |-> metres,
                      pixel_size |-> IF metres THEN 200 ELSE 1],
                     [nodata |-> R(n3), px |-> <<R(p3)>>, metres |-> TRUE,
                      pixel_size |-> 100] >>
    /\ \E u1 \in {"Tc", "TcPerHa"}, u2 \in {"Tc", "Ktc", "TcPerHa"} :
          heap = << Layer(1, 1, NoInterpretation, u1),
                    Layer(2, 1, NoInterpretation, u2),
                    Layer(3, 1, NoInterpretation, u1) >>
    /\ born = heap
    /\ last = NoCall
    /\ \E m1, m2 \in {"+", "-"} :
          inp \in {<<2, m1>>, <<2, m1, 3>>, <<2, m1, 3, m2>>}
    /\ out = <<>>
    /\ NoCollection

Blend ==
    /\ last.op = "none"
    /\ Apply("blend", 1, inp, blend(heap, files, 1, inp))

NextBlend == Blend

SpecBlend == InitBlend /\ [][NextBlend]_vars

\* Operand k of the last blend as the blend read it: converted to the base
\* layer's units.
ConvertedOperand(k) ==
    LET c == convert_units(last.before, files, last.args[2 * k - 1],
                           last.before[last.self].units)
    IN  c.files[c.heap[c.ret].path]

\* base +- operand 1 +- .. +- operand k at pixel i
RECURSIVE SignedSum(_, _)
SignedSum(k, i) ==
    IF k = 0 THEN Original.px[i]
    ELSE RAdd(SignedSum(k - 1, i),
              IF last.args[2 * k] = "+" THEN ConvertedOperand(k).px[i]
              ELSE RNeg(ConvertedOperand(k).px[i]))

OperandNodata(i) ==
    \E k \in 1 .. Len(last.args) \div 2 :
        ConvertedOperand(k).px[i] = ConvertedOperand(k).nodata

\* C4: a pixel of the blend is the base layer's nodata value if
\* and only if the base layer or an operand is nodata there, and is the
\* signed sum of base and operands otherwise.
C4_BlendNodataIff ==
    last.op = "blend" /\ last.error = "none" =>
        \A i \in DOMAIN Original.px :
            /\ Output.px[i] = Original.nodata
                   <=> (Original.px[i] = Original.nodata \/ OperandNodata(i))
            /\ ~(Original.px[i] = Original.nodata \/ OperandNodata(i))
                   => Output.px[i] = SignedSum(Len(last.args) \div 2, i)


\* ====================================================== SpecBounds ========
\* BoundingBox.min_pixel_bounds as a function of the box's raster.  The
\* raster is a sequence of rows; row i and column j of the code (from 0)
\* are raster_data[i + 1][j + 1].  The nodata value is 0.  out is the cache
\* _min_pixel_bounds.

MaxRows == 3

MaxCols == 3

\* The loop over the rows from row i on.
RECURSIVE ScanRows(_, _, _, _, _, _, _)
ScanRows(raster_data, nodata_value, i, x_min, x_max, y_min, y_max) ==
    IF i >= Len(raster_data) THEN <<x_min - 1, x_max + 1, y_min - 1, y_max + 1>>
    ELSE LET row == raster_data[i + 1]
             x_index == {j \in 0 .. Len(row) - 1 : row[j + 1] # nodata_value}
         IN  IF x_index = {}
             THEN ScanRows(raster_data, nodata_value, i + 1, x_min, x_max, y_min, y_max)
             ELSE LET x_index_min == CHOOSE j \in x_index : \A k \in x_index : j <= k
                      x_index_max == CHOOSE j \in x_index : \A k \in x_index : j >= k
                  IN  ScanRows(raster_data, nodata_value, i + 1,
                               IF x_index_min < x_min THEN x_index_min ELSE x_min,
                               IF x_index_max > x_max THEN x_index_max ELSE x_max,
                               IF y_min = 0 THEN i ELSE y_min,
                               i)

min_pixel_bounds(raster_data, nodata_value) ==
    ScanRows(raster_data, nodata_value, 0, Len(raster_data[1]), 0, 0, 0)

InitBounds ==
    /\ \E rows \in 1 .. MaxRows, cols \in 1 .. MaxCols :
          inp \in [1 .. rows -> [1 .. cols -> {0, 1}]]
    /\ out = <<>>
    /\ heap = <<>>
    /\ born = <<>>
    /\ files = <<>>
    /\ last = NoCall
    /\ NoCollection

MinPixelBounds ==
    /\ out = <<>>
    /\ out' = min_pixel_bounds(inp, 0)
    /\ UNCHANGED <<heap, born, files, last, inp, collection, box, pool, rs>>

NextBounds == MinPixelBounds

SpecBounds == InitBounds /\ [][NextBounds]_vars

\* the non-nodata pixels <<row, column>> of the raster, counted from 0
DataPixels ==
    {rc \in (0 .. Len(inp) - 1) \X (0 .. Len(inp[1]) - 1) :
        inp[rc[1] + 1][rc[2] + 1] # 0}

\* C9: for a raster with a non-nodata pixel, min_pixel_bounds is (xMin,
\* xMax, yMin, yMax) of the smallest rectangle of rows and columns holding
\* every non-nodata pixel, widened by one pixel on each side, so every
\* non-nodata pixel, those of row 0 and column 0 too, lies inside it.
C9_MinPixelBounds ==
    out # <<>> /\ DataPixels # {} =>
        /\ \A rc \in DataPixels : /\ out[1] <= rc[2] - 1
                                  /\ out[2] >= rc[2] + 1
                                  /\ out[3] <= rc[1] - 1
                                  /\ out[4] >= rc[1] + 1
        /\ \E rc \in DataPixels : out[1] = rc[2] - 1
        /\ \E rc \in DataPixels : out[2] = rc[2] + 1
        /\ \E rc \in DataPixels : out[3] = rc[1] - 1
        /\ \E rc \in DataPixels : out[4] = rc[1] + 1


\* =================================================== LayerCollection ======
\* A LayerCollection is its list _layers, a sequence of the ids of Layer
\* objects.  The arguments of LayerCollection.blend are such lists at the
\* odd positions and blend modes at the even ones.

\* zip(collections[::2], collections[1::2]): a trailing collection without
\* a blend mode is not paired.
BlendCollections(collections) ==
    [k \in 1 .. Len(collections) \div 2 |->
        [collection |-> collections[2 * k - 1], blend_mode |-> collections[2 * k]]]

YearsOf(hp, layers) == {hp[layers[i]].year : i \in DOMAIN layers}

BlendYearsOfSelf(hp, self, blend_collections) == YearsOf(hp, self)

\* years of LayerCollection.blend
BlendYears(hp, self, blend_collections) ==
    YearsOf(hp, self)
        \cup UNION {YearsOf(hp, blend_collections[k].collection) :
                        k \in DOMAIN blend_collections}

\* filter(lambda layer: layer.year == year, layers)
FilterYear(hp, layers, year) == SelectSeq(layers, LAMBDA id : hp[id].year = year)

\* chain(*(collection._layers for collection, _ in blend_collections))
RECURSIVE Chain(_, _)
Chain(blend_collections, k) ==
    IF k > Len(blend_collections) THEN <<>>
    ELSE blend_collections[k].collection \o Chain(blend_collections, k + 1)

\* other_layers: every layer of the year of every paired collection, each
\* followed by its collection's blend mode
RECURSIVE OtherLayers(_, _, _, _)
OtherLayers(hp, blend_collections, year, k) ==
    IF k > Len(blend_collections) THEN <<>>
    ELSE LET layers == FilterYear(hp, blend_collections[k].collection, year)
         IN  [i \in 1 .. 2 * Len(layers) |->
                 IF i % 2 = 1 THEN layers[(i + 1) \div 2]
                 ELSE blend_collections[k].blend_mode]
             \o OtherLayers(hp, blend_collections, year, k + 1)

SetMin(S) == CHOOSE m \in S : \A x \in S : m <= x

\* local_layer of a year this collection has no layer for: the first layer
\* of this collection, else of the paired collections, flattened to 0 with
\* its units kept, under the year
Placeholder(hp, fs, self, blend_collections, year) ==
    LET p == flatten(hp, fs,
                     IF self # <<>> THEN self[1] ELSE Chain(blend_collections, 1)[1],
                     R(0), TRUE)
    IN  Returned(Append(p.heap, Layer(p.heap[p.ret].path, year,
                                      p.heap[p.ret].interpretation,
                                      p.heap[p.ret].units)),
                 p.files, Len(p.heap) + 1)

TooManyLayersAboveTwo(local_layers) == Len(local_layers) > 2

\* len(local_layers) > 1: blend raises
TooManyLayers(local_layers) == Len(local_layers) > 1

\* The loop of LayerCollection.blend over the years; the set of the years is
\* iterated in the order of a CPython set of small integers, ascending.
\* blended is the list of the new collection, bases the list of the
\* local_layer of each iteration.
RECURSIVE BlendEachYear(_, _, _, _, _, _, _)
BlendEachYear(hp, fs, self, blend_collections, years, blended, bases) ==
    IF years = {}
    THEN [heap |-> hp, files |-> fs, ret |-> blended, error |-> "none",
          bases |-> bases]
    ELSE LET year == SetMin(years)
             local_layers == FilterYear(hp, self, year)
             Blended(local) ==
                 LET other_layers == OtherLayers(local.heap, blend_collections, year, 1)
                 IN  IF other_layers = <<>> THEN local
                     ELSE blend(local.heap, local.files, local.ret, other_layers)
             Rest(local, b) ==
                 BlendEachYear(b.heap, b.files, self, blend_collections,
                               years \ {year}, Append(blended, b.ret),
                               Append(bases, local.ret))
         IN  IF TooManyLayers(local_layers)
             THEN [heap |-> hp, files |-> fs, ret |-> <<>>,
                   error |-> "RuntimeError", bases |-> <<>>]
             ELSE Only({Only({Rest(local, b) : b \in {Blended(local)}}) :
                           local \in {IF local_layers # <<>>
                                      THEN Returned(hp, fs, local_layers[1])
                                      ELSE Placeholder(hp, fs, self,
                                                       blend_collections, year)}})

\* LayerCollection.blend; ret is the list _layers of the new collection
CollectionBlend(hp, fs, self, collections) ==
    BlendEachYear(hp, fs, self, BlendCollections(collections),
                  BlendYears(hp, self, BlendCollections(collections)), <<>>, <<>>)


\* =================================================== SpecCollBlend ========
\* LayerCollection.blend of a collection with up to two operand
\* collections, over collections of every size up to MaxLayers and every
\* choice of years 0 .. MaxYear for their layers.

MaxYear == 2

MaxLayers == 2

Years == 0 .. MaxYear

\* the years of the layers of a collection of up to n layers, listed in the
\* order of the years
YearLists(n) ==
    {ys \in UNION {[1 .. k -> Years] : k \in 0 .. n} :
        \A i \in 1 .. Len(ys) - 1 : ys[i] <= ys[i + 1]}

\* the rasters of the layers of the three collections
CollectionFiles(n, px, pixel_size) ==
    [i \in 1 .. n |-> [nodata |-> R(0), px |-> px, metres |-> TRUE,
                       pixel_size |-> pixel_size]]

InitCollBlend ==
    /\ \E ys \in YearLists(MaxLayers), ya \in YearLists(MaxLayers), yb \in YearLists(1) :
          /\ heap = [i \in 1 .. Len(ys) |-> Layer(i, ys[i], NoInterpretation, "Tc")]
                    \o [i \in 1 .. Len(ya) |->
                           Layer(Len(ys) + i, ya[i], NoInterpretation, "Ktc")]
                    \o [i \in 1 .. Len(yb) |->
                           Layer(Len(ys) + Len(ya) + i, yb[i], NoInterpretation, "Mtc")]
          /\ files = CollectionFiles(Len(ys), <<R(1), R(0)>>, 100)
                     \o CollectionFiles(Len(ya), <<R(2), R(2)>>, 100)
                     \o CollectionFiles(Len(yb), <<R(0), R(3)>>, 100)
          /\ collection = [i \in 1 .. Len(ys) |-> i]
          /\ \E m1 \in {"+", "-"} :
                LET a == [i \in 1 .. Len(ya) |-> Len(ys) + i]
                    b == [i \in 1 .. Len(yb) |-> Len(ys) + Len(ya) + i]
                IN  inp \in {<<a, m1>>, <<a, m1, b>>, <<a, m1, b, "-">>}
    /\ born = heap
    /\ last = NoCall
    /\ out = <<>>
    /\ box = <<>>
    /\ pool = <<>>
    /\ rs = <<>>

BlendCollection ==
    /\ out = <<>>
    /\ \E r \in {CollectionBlend(heap, files, collection, inp)} :
           /\ heap' = r.heap
           /\ files' = r.files
           /\ out' = [ret |-> r.ret, error |-> r.error, bases |-> r.bases]
    /\ UNCHANGED <<born, last, inp, collection, box, pool, rs>>

NextCollBlend == BlendCollection

SpecCollBlend == InitCollBlend /\ [][NextCollBlend]_vars

\* the years of the layers of this collection, and of the collections
\* paired with a blend mode in the call
SelfYears == {born[collection[i]].year : i \in DOMAIN collection}

OperandYears ==
    UNION {{born[inp[2 * k - 1][i]].year : i \in DOMAIN inp[2 * k - 1]} :
              k \in 1 .. Len(inp) \div 2}

\* the layer the placeholders are made of
Template ==
    IF collection # <<>> THEN collection[1]
    ELSE Chain(BlendCollections(inp), 1)[1]

\* C2: a blend that returns gives a collection with exactly one layer of
\* each year of this collection or of an operand collection and no layer of
\* another year; the base of a year this collection has no layer of is a
\* new layer of that year, in the units of the layer it is made of, whose
\* raster is that layer's raster with every data pixel set to 0.
C2_BlendOneLayerPerYear ==
    out # <<>> /\ out.error = "none" =>
        /\ \A y \in SelfYears \cup OperandYears :
              Cardinality({i \in DOMAIN out.ret : heap[out.ret[i]].year = y}) = 1
        /\ \A i \in DOMAIN out.ret :
              heap[out.ret[i]].year \in SelfYears \cup OperandYears
        /\ \A i \in DOMAIN out.ret :
              heap[out.ret[i]].year \notin SelfYears =>
                  LET base == heap[out.bases[i]]
                      from == files[born[Template].path]
                  IN  /\ out.bases[i] > Len(born)
                      /\ base.year = heap[out.ret[i]].year
                      /\ base.units = born[Template].units
                      /\ files[base.path].nodata = from.nodata
                      /\ \A j \in DOMAIN from.px :
                            files[base.path].px[j] =
                                IF from.px[j] = from.nodata THEN from.nodata ELSE R(0)

\* A blend returned a collection of two or more years, one of them a year
\* only an operand collection has a layer of, over a placeholder made of
\* this collection's first layer.
C2_Witness ==
    /\ out # <<>>
    /\ out.error = "none"
    /\ collection # <<>>
    /\ Len(out.ret) >= 2
    /\ \E i \in DOMAIN out.ret :
          /\ heap[out.ret[i]].year \notin SelfYears
          /\ heap[out.ret[i]].year \in OperandYears
          /\ out.bases[i] > Len(born)


\* ======================================================= BoundingBox ======
\* A BoundingBox is a Layer of year 0 with the flag _initialized.  A process
\* holds its own copy of a box: path and initialized are the copy's fields.

BoundingBox(path) ==
    [path |-> path, year |-> 0, interpretation |-> NoInterpretation,
     units |-> "TcPerHa", initialized |-> FALSE]

\* the Layer part of a box
AsLayer(b) == Layer(b.path, b.year, b.interpretation, b.units)

\* BoundingBox._init: the box's raster warped to its minimum extent and
\* warped again; the box then reads the second file.  Every pixel of the
\* rasters here lies inside that extent.
BoxInit(b, fs) ==
    LET bbox == Warped(fs[b.path], [i \in DOMAIN fs[b.path].px |-> TRUE])
        final_bbox == Warped(bbox, [i \in DOMAIN bbox.px |-> TRUE])
    IN  [box |-> [b EXCEPT !.path = Len(fs) + 2, !.initialized = TRUE],
         files |-> fs \o <<bbox, final_bbox>>, inits |-> 1]

\* A * (B != nodata of B) + ((B == nodata of B) * nodata of A), under the
\* nodata mask of gdal_calc
CroppedPixels(A, B) ==
    GdalCalc([i \in DOMAIN A.px |->
                 RAdd(RMul(A.px[i], B2R(B.px[i] # B.nodata)),
                      RMul(B2R(B.px[i] = B.nodata), A.nodata))],
             [i \in DOMAIN A.px |-> A.px[i] = A.nodata \/ B.px[i] = B.nodata],
             A.nodata)

\* BoundingBox.crop of a layer by the copy b of the box: the copy
\* initializes itself if it is not initialized; the layer is warped onto
\* the grid of the box (the rasters here share one grid) and masked with
\* the box's nodata pixels.
crop(b, fs, layer) ==
    Only({LET B == i.files[i.box.path]
              tmp == [Warped(i.files[layer.path],
                             [j \in DOMAIN i.files[layer.path].px |-> TRUE])
                         EXCEPT !.metres = B.metres, !.pixel_size = B.pixel_size]
              output == [tmp EXCEPT !.px = CroppedPixels(tmp, B)]
          IN  [box |-> i.box, files |-> i.files \o <<tmp, output>>,
               ret |-> Layer(Len(i.files) + 2, layer.year, layer.interpretation,
                             layer.units),
               inits |-> i.inits] :
             i \in {IF b.initialized THEN [box |-> b, files |-> fs, inits |-> 0]
                    ELSE BoxInit(b, fs)}})


\* ============================================ LayerCollection.render ======

\* Python's None as a year argument
None == 0 - 1

\* the truth value of a year argument: None and 0 are false
Truthy(year) == year # None /\ year # 0

RenderYears(layer_years, start_year, end_year) ==
    IF Truthy(start_year) /\ Truthy(end_year) THEN start_year .. end_year
    ELSE layer_years

\* os.cpu_count(), the size of Pool()
Processes == 2

\* Pool.map cuts its list into chunks of this many items, one task each
ChunkSize(n) ==
    IF n % (Processes * 4) # 0 THEN n \div (Processes * 4) + 1
    ELSE n \div (Processes * 4)

Chunks(items) ==
    IF items = <<>> THEN <<>>
    ELSE LET size == ChunkSize(Len(items))
         IN  [c \in 1 .. (Len(items) + size - 1) \div size |->
                 SubSeq(items, (c - 1) * size + 1,
                        IF c * size < Len(items) THEN c * size ELSE Len(items))]

\* A task of the pool: the function, its arguments as pickled for the
\* worker (for crop with a copy of the box), and, once a worker has run it,
\* what it returned and the files it wrote.
Task(fn, args, b) ==
    [fn |-> fn, args |-> args, box |-> b, done |-> FALSE, result |-> <<>>,
     newfiles |-> <<>>, error |-> "none", inits |-> 0]

\* what a worker returns of a call on its copy of a layer
OfCopy(r, fs) ==
    [result |-> IF r.error = "none" THEN <<r.heap[r.ret]>> ELSE <<>>,
     newfiles |-> SubSeq(r.files, Len(fs) + 1, Len(r.files)),
     error |-> r.error, inits |-> 0]

\* the exit status of the gdaldem process: 0 is success
ReturnCodes == {0, 1}

\* the rendered image of a raster, with the exit status of the gdaldem
\* process that was to write it, and an image over another
Png(raster, legend, transparent, returncode) ==
    [raster |-> raster, legend |-> legend, transparent |-> transparent,
     returncode |-> returncode, bottom |-> <<>>]

Frame(year, path, scale) == [year |-> year, path |-> path, scale |-> scale]

\* Frame.composite: this frame's image over the bottom frame's image
composite(frame, bottom_frame) ==
    Frame(frame.year, [frame.path EXCEPT !.bottom = <<bottom_frame.path>>],
          frame.scale)

\* Layer.scale: the pixel size in metres; for a raster in degrees the
\* geodesic length of a pixel, which grows with the pixel size
Scale(raster) ==
    IF raster.metres THEN raster.pixel_size ELSE raster.pixel_size * one_hectare

\* Layer.render: the color table is written, the layer cropped if a box is
\* given, and gdaldem colors the raster; subprocess.run returns the exit
\* status of gdaldem, which render does not read.
LayerRender(b, fs, layer, legend, use_box, transparent, returncode) ==
    Only({[box |-> c.box, files |-> c.files, inits |-> c.inits,
           ret |-> Frame(layer.year,
                         Png(c.ret.path, legend, transparent, returncode),
                         Scale(fs[layer.path]))] :
             c \in {IF use_box THEN crop(b, fs, layer)
                    ELSE [box |-> b, files |-> fs, ret |-> layer, inits |-> 0]}})

\* gdal.Warp of several rasters of one grid into one: at each pixel the data
\* of the last raster that has data there
MosaicPixels(rasters) ==
    [i \in DOMAIN rasters[1].px |->
        LET data == {k \in DOMAIN rasters : rasters[k].px[i] # rasters[k].nodata}
        IN  IF data = {} THEN rasters[1].nodata ELSE rasters[SetMax(data)].px[i]]

\* LayerCollection._merge_layers
merge_layers(fs, layers) ==
    IF Len(layers) = 1 THEN [files |-> fs, ret |-> layers[1]]
    ELSE [files |-> Append(fs, [fs[layers[1].path] EXCEPT
                                   !.px = MosaicPixels([k \in DOMAIN layers |->
                                                           fs[layers[k].path]])]),
          ret |-> Layer(Len(fs) + 1, layers[1].year, layers[1].interpretation,
                        layers[1].units)]

\* a chunk of Pool.map(bounding_box.crop, ..): the worker crops the layers
\* of the chunk in turn with its copy of the box
RECURSIVE CropEach(_, _, _, _, _, _)
CropEach(b, fs, layers, k, results, inits) ==
    IF k > Len(layers) THEN [files |-> fs, results |-> results, inits |-> inits]
    ELSE Only({CropEach(c.box, c.files, layers, k + 1, Append(results, c.ret),
                        inits + c.inits) :
                  c \in {crop(b, fs, layers[k])}})

\* a chunk of Pool.map(self._merge_layers, ..)
RECURSIVE MergeEach(_, _, _, _)
MergeEach(fs, groups, k, results) ==
    IF k > Len(groups) THEN [files |-> fs, results |-> results, inits |-> 0]
    ELSE Only({MergeEach(m.files, groups, k + 1, Append(results, m.ret)) :
                  m \in {merge_layers(fs, groups[k])}})

\* what a worker returns of a chunk
OfChunk(c, fs) ==
    [result |-> c.results, newfiles |-> SubSeq(c.files, Len(fs) + 1, Len(c.files)),
     error |-> "none", inits |-> c.inits]

\* A worker runs a task: on the files as they are, with the arguments of
\* the task and the locals of render that were passed with it.
Work(task, fs, units, common_interpretation, legend, returncode) ==
    CASE task.fn = "crop" ->
            Only({OfChunk(c, fs) : c \in {CropEach(task.box, fs, task.args, 1, <<>>, 0)}})
      [] task.fn = "convert_units" ->
            Only({OfCopy(r, fs) : r \in {convert_units(task.args, fs, 1, units)}})
      [] task.fn = "reclassify" ->
            Only({OfCopy(r, fs) :
                     r \in {reclassify(task.args, fs, 1, common_interpretation, R(0))}})
      [] task.fn = "_merge_layers" ->
            Only({OfChunk(c, fs) : c \in {MergeEach(fs, task.args, 1, <<>>)}})
      [] task.fn = "render" ->
            [result |-> <<LayerRender(task.box, fs, task.args[1], legend,
                                      FALSE, TRUE, returncode).ret>>,
             newfiles |-> <<>>, error |-> "none", inits |-> 0]

\* A layer a worker returned, as the parent reads it: the files the
\* workers wrote since the n files of the dispatch are listed task by task,
\* after the m files listed so far.
Moved(layer, n, m) ==
    IF layer.path > n THEN [layer EXCEPT !.path = @ - n + m] ELSE layer

\* [task.get() for task in tasks], and the results of Pool.map
RECURSIVE Gather(_, _, _, _, _)
Gather(tasks, k, fs, n, results) ==
    IF k > Len(tasks) THEN [files |-> fs, results |-> results]
    ELSE Gather(tasks, k + 1, fs \o tasks[k].newfiles, n,
                results \o [i \in DOMAIN tasks[k].result |->
                               Moved(tasks[k].result[i], n, Len(fs))])

\* the frames the render tasks returned
RECURSIVE Frames(_, _)
Frames(tasks, k) ==
    IF k > Len(tasks) THEN <<>> ELSE tasks[k].result \o Frames(tasks, k + 1)

\* sorted(S)
RECURSIVE Sorted(_)
Sorted(S) == IF S = {} THEN <<>> ELSE <<SetMin(S)>> \o Sorted(S \ {SetMin(S)})

\* any(layer.has_interpretation for layer in working_layers)
Interpreted(working_layers) ==
    \E i \in DOMAIN working_layers : ~working_layers[i].interpretation.none

\* {i: value for i, value in enumerate(unique_values, 1)}
CommonInterpretation(working_layers) ==
    LET unique_values ==
            Sorted(UNION {Values(working_layers[i].interpretation) :
                             i \in DOMAIN working_layers})
    IN  Dict([i \in DOMAIN unique_values |-> <<i, unique_values[i]>>])

\* layers_by_year.values(): the layers of each year, the years in the order
\* of their first layer
LayersByYear(working_layers) ==
    LET first == SelectSeq([i \in DOMAIN working_layers |-> i],
                           LAMBDA i : \A j \in 1 .. i - 1 :
                               working_layers[j].year # working_layers[i].year)
    IN  [g \in DOMAIN first |->
            SelectSeq(working_layers,
                      LAMBDA layer : layer.year = working_layers[first[g]].year)]

\* the legends: of the background, and Colorizer.create_legend(layers)
BackgroundLegend == [background |-> TRUE, of |-> <<>>]

create_legend(layers) ==
    [background |-> FALSE, of |-> [i \in DOMAIN layers |-> layers[i].path]]

\* background_layer.flatten().render({1: ..}, bounding_box, transparent=False)
BackgroundFrame(b, fs, background_layer, use_box, returncode) ==
    Only({LayerRender(b, fl.files, fl.heap[fl.ret], BackgroundLegend, use_box,
                      FALSE, returncode) :
             fl \in {flatten(<<background_layer>>, fs, 1, R(1), FALSE)}})

\* ====================================================== SpecRender ========
\* A collection of up to MaxLayers layers of the years 0 .. MaxYear and a
\* bounding box; the caller crops a layer with the box, blends the
\* collection, and renders it with or without the box, over every range of
\* years.  box.self is the caller's BoundingBox object, box.inits the number
\* of runs of _init on it and on its copies.

\* the interpretations of the layers at the odd and at the even positions,
\* and the nodata value of their rasters
InterpretationPatterns ==
    LET a == Dict(<<<<1, 1>>, <<2, 2>>>>)
        b == Dict(<<<<1, 2>>, <<3, 3>>>>)
        z == Dict(<<<<0, 1>>, <<2, 3>>>>)
    IN  {<<NoInterpretation, NoInterpretation, R(0)>>, <<a, a, R(0)>>,
         <<a, b, R(0)>>, <<NoInterpretation, a, R(0)>>,
         <<a, NoInterpretation, R(0)>>, <<z, a, R(4)>>}

LayerFile(i, nodata) ==
    [nodata |-> nodata, px |-> IF i % 2 = 1 THEN <<R(2), R(0), R(2)>>
                               ELSE <<R(1), R(3), R(3)>>,
     metres |-> TRUE, pixel_size |-> 100]

BoxFile ==
    [nodata |-> R(0), px |-> <<R(5), R(5), R(0)>>, metres |-> TRUE, pixel_size |-> 100]

NoFrame == Frame(None, Png(0, BackgroundLegend, FALSE, 0), 0)

Idle ==
    [pc |-> "idle", use_box |-> FALSE, start_year |-> None, end_year |-> None,
     units |-> "TcPerHa", layer_years |-> {}, render_years |-> {},
     working_layers |-> <<>>, common_interpretation |-> NoInterpretation,
     layers_by_year |-> <<>>, background_frame |-> NoFrame,
     legend |-> BackgroundLegend, error |-> "none"]

InitRender ==
    /\ \E ys \in YearLists(MaxLayers), p \in InterpretationPatterns :
          /\ heap = [i \in 1 .. Len(ys) |->
                        Layer(i, ys[i], p[2 - (i % 2)],
                              IF ~p[2 - (i % 2)].none THEN "Blank"
                              ELSE IF i % 2 = 1 THEN "TcPerHa" ELSE "KtcPerHa")]
          /\ files = [i \in 1 .. Len(ys) + 1 |->
                         IF i <= Len(ys) THEN LayerFile(i, p[3]) ELSE BoxFile]
          /\ collection = [i \in 1 .. Len(ys) |-> i]
          /\ box = [self |-> BoundingBox(Len(ys) + 1), inits |-> 0]
    /\ born = heap
    /\ last = NoCall
    /\ inp = <<>>
    /\ out = <<>>
    /\ pool = <<>>
    /\ rs = Idle

\* the caller crops the first layer of the collection with the box
DirectCrop ==
    /\ rs.pc = "idle"
    /\ last.op = "none"
    /\ ~box.self.initialized
    /\ collection # <<>>
    /\ \E c \in {crop(box.self, files, heap[collection[1]])} :
          /\ files' = c.files
          /\ box' = [self |-> c.box, inits |-> box.inits + c.inits]
    /\ UNCHANGED <<heap, born, last, inp, out, collection, pool, rs>>

\* the caller blends the collection, with no operand or with itself
BlendSelf ==
    /\ rs.pc = "idle"
    /\ last.op = "none"
    /\ ~box.self.initialized
    /\ \E args \in {<<>>, <<collection, "+">>} :
       \E r \in {CollectionBlend(heap, files, collection, args)} :
          /\ heap' = r.heap
          /\ files' = r.files
          /\ out' = [ret |-> r.ret, error |-> r.error, bases |-> r.bases]
          /\ last' = [NoCall EXCEPT !.op = "blend", !.error = r.error]
    /\ UNCHANGED <<born, inp, collection, box, pool, rs>>

\* render raises: the pool is closed and nothing is returned
Fail(error, fs) ==
    /\ files' = fs
    /\ rs' = [rs EXCEPT !.pc = "failed", !.error = error]
    /\ pool' = <<>>
    /\ UNCHANGED <<heap, born, last, inp, out, collection, box>>

\* LayerCollection.render up to its first wait for the pool
RenderCall ==
    /\ rs.pc = "idle"
    /\ last.op = "none" \/ last.error # "none"
    /\ \E use_box \in BOOLEAN, start_year, end_year \in {None} \cup Years :
          /\ (start_year = None) = (end_year = None)
          /\ start_year <= end_year
          /\ LET layer_years == YearsOf(heap, collection)
                 render_years == RenderYears(layer_years, start_year, end_year)
                 selected == SelectSeq(collection,
                                       LAMBDA id : heap[id].year \in render_years)
                 working_layers == [i \in DOMAIN selected |-> heap[selected[i]]]
             IN  /\ rs' = [rs EXCEPT !.pc = IF use_box THEN "crop" ELSE "convert",
                                     !.use_box = use_box,
                                     !.start_year = start_year,
                                     !.end_year = end_year,
                                     !.layer_years = layer_years,
                                     !.render_years = render_years,
                                     !.working_layers = working_layers]
                 /\ pool' = IF use_box
                            THEN [c \in DOMAIN Chunks(working_layers) |->
                                     Task("crop", Chunks(working_layers)[c], box.self)]
                            ELSE [i \in DOMAIN working_layers |->
                                     Task("convert_units", <<working_layers[i]>>, <<>>)]
    /\ UNCHANGED <<heap, born, files, last, inp, out, collection, box>>

\* a worker of the pool runs a task
RunTask ==
    /\ rs.pc \in {"crop", "convert", "reclassify", "merge", "render"}
    /\ \E t \in DOMAIN pool :
          /\ ~pool[t].done
          /\ \E returncode \in IF pool[t].fn = "render" THEN ReturnCodes ELSE {0} :
             \E w \in {Work(pool[t], files, rs.units, rs.common_interpretation,
                            rs.legend, returncode)} :
                /\ pool' = [pool EXCEPT ![t].done = TRUE, ![t].result = w.result,
                                        ![t].newfiles = w.newfiles,
                                        ![t].error = w.error, ![t].inits = w.inits]
                /\ box' = [box EXCEPT !.inits = @ + w.inits]
    /\ UNCHANGED <<heap, born, files, last, inp, out, collection, rs>>

\* a variant of AllDone that waits for one result only
SomeDone == pool = <<>> \/ \E t \in DOMAIN pool : pool[t].done

AllDone == \A t \in DOMAIN pool : pool[t].done

\* render from the grouping of the layers by year to the dispatch of the
\* merges: the background frame is made in between, by the parent, with
\* its own box.
Regroup(fs, working_layers) ==
    IF ~rs.use_box /\ working_layers = <<>> THEN Fail("IndexError", fs)
    ELSE \E returncode \in ReturnCodes :
         \E bg \in {BackgroundFrame(box.self, fs,
                                    IF rs.use_box THEN AsLayer(box.self)
                                    ELSE working_layers[1],
                                    rs.use_box, returncode)} :
            /\ files' = bg.files
            /\ box' = [self |-> bg.box, inits |-> box.inits + bg.inits]
            /\ rs' = [rs EXCEPT !.pc = "merge",
                                !.working_layers = working_layers,
                                !.layers_by_year = LayersByYear(working_layers),
                                !.background_frame = bg.ret]
            /\ pool' = [c \in DOMAIN Chunks(LayersByYear(working_layers)) |->
                           Task("_merge_layers",
                                Chunks(LayersByYear(working_layers))[c], <<>>)]
            /\ UNCHANGED <<heap, born, last, inp, out, collection>>

\* the cropped layers are in: the conversions are dispatched
AfterCrop ==
    /\ rs.pc = "crop"
    /\ AllDone
    /\ \E g \in {Gather(pool, 1, files, Len(files), <<>>)} :
          /\ files' = g.files
          /\ rs' = [rs EXCEPT !.pc = "convert", !.working_layers = g.results]
          /\ pool' = [i \in DOMAIN g.results |->
                         Task("convert_units", <<g.results[i]>>, <<>>)]
    /\ UNCHANGED <<heap, born, last, inp, out, collection, box>>

\* the converted layers are in: the common interpretation is made and the
\* reclassifications dispatched, or the layers grouped at once
AfterConvert ==
    /\ rs.pc = "convert"
    /\ AllDone
    /\ \E g \in {Gather(pool, 1, files, Len(files), <<>>)} :
          IF ~Interpreted(g.results) THEN Regroup(g.files, g.results)
          ELSE IF \E i \in DOMAIN g.results : g.results[i].interpretation.none
          THEN Fail("AttributeError", g.files)
          ELSE /\ files' = g.files
               /\ rs' = [rs EXCEPT !.pc = "reclassify",
                                   !.working_layers = g.results,
                                   !.common_interpretation =
                                       CommonInterpretation(g.results)]
               /\ pool' = [i \in DOMAIN g.results |->
                              Task("reclassify", <<g.results[i]>>, <<>>)]
               /\ UNCHANGED <<heap, born, last, inp, out, collection, box>>

\* the reclassified layers are in
AfterReclassify ==
    /\ rs.pc = "reclassify"
    /\ AllDone
    /\ \E g \in {Gather(pool, 1, files, Len(files), <<>>)} :
          Regroup(g.files, g.results)

\* the merged layers are in: the legend is made and the renderings
\* dispatched
AfterMerge ==
    /\ rs.pc = "merge"
    /\ AllDone
    /\ \E g \in {Gather(pool, 1, files, Len(files), <<>>)} :
          /\ files' = g.files
          /\ rs' = [rs EXCEPT !.pc = "render", !.working_layers = g.results,
                              !.legend = create_legend(g.results)]
          /\ pool' = [i \in DOMAIN g.results |->
                         Task("render", <<g.results[i]>>, <<>>)]
    /\ UNCHANGED <<heap, born, last, inp, out, collection, box>>

\* the frames are in: each is laid over the background, the years without
\* a layer get the background, and render returns
AfterRender ==
    /\ rs.pc = "render"
    /\ AllDone
    /\ LET rendered_layers == Frames(pool, 1)
           missing_years == Sorted(rs.render_years \ rs.layer_years)
       IN  out' = [frames |->
                      [i \in DOMAIN rendered_layers |->
                          composite(rendered_layers[i], rs.background_frame)]
                      \o [i \in DOMAIN missing_years |->
                             Frame(missing_years[i], rs.background_frame.path,
                                   rs.background_frame.scale)],
                   legend |-> rs.legend]
    /\ rs' = [rs EXCEPT !.pc = "done"]
    /\ pool' = <<>>
    /\ UNCHANGED <<heap, born, files, last, inp, collection, box>>

NextRender ==
    \/ DirectCrop
    \/ BlendSelf
    \/ RenderCall
    \/ RunTask
    \/ AfterCrop
    \/ AfterConvert
    \/ AfterReclassify
    \/ AfterMerge
    \/ AfterRender

SpecRender == InitRender /\ [][NextRender]_vars


\* an explicit range of years was passed to render
ExplicitRange == rs.start_year # None /\ rs.end_year # None

\* C1: render of a collection over an explicit range start_year .. end_year
\* returns, and returns exactly one frame of each year of the range and no
\* frame of another year, whichever of those years the collection has
\* layers of.  (A render that stops at a collection of layers with and
\* without an interpretation is left to C15.)
C1_OneFramePerYearOfRange ==
    rs.pc \in {"done", "failed"} /\ ExplicitRange /\ rs.error # "AttributeError" =>
        /\ rs.pc = "done"
        /\ \A y \in rs.start_year .. rs.end_year :
              Cardinality({i \in DOMAIN out.frames : out.frames[i].year = y}) = 1
        /\ \A i \in DOMAIN out.frames :
              out.frames[i].year \in rs.start_year .. rs.end_year

\* the collection has two layers of one year
SameYearLayers ==
    \E i, j \in DOMAIN collection :
        i # j /\ born[collection[i]].year = born[collection[j]].year

\* C3: blend of a collection with two layers of one year raises the error
\* and returns no collection; render of that collection never raises that
\* error, and the layers it has after the merge are one per year: the
\* layers of a year with several are merged into one new layer of that
\* year that has data wherever one of them has, from one of them.
C3_BlendRejectsRenderMerges ==
    /\ last.op = "blend" /\ SameYearLayers =>
          /\ last.error = "RuntimeError"
          /\ rs.pc = "idle" => out.ret = <<>>
    /\ rs.error # "RuntimeError"
    /\ rs.pc \in {"render", "done"} =>
          /\ Len(rs.working_layers) = Len(rs.layers_by_year)
          /\ \A i, j \in DOMAIN rs.working_layers :
                i # j => rs.working_layers[i].year # rs.working_layers[j].year
          /\ \A g \in DOMAIN rs.layers_by_year :
                LET group == rs.layers_by_year[g]
                    merged == files[rs.working_layers[g].path]
                IN  /\ \A k \in DOMAIN group :
                          group[k].year = rs.working_layers[g].year
                    /\ Len(group) > 1 =>
                          /\ \A k \in DOMAIN group :
                                group[k].path # rs.working_layers[g].path
                          /\ \A i \in DOMAIN merged.px :
                                IF \A k \in DOMAIN group :
                                       files[group[k].path].px[i]
                                           = files[group[k].path].nodata
                                THEN merged.px[i] = merged.nodata
                                ELSE \E k \in DOMAIN group :
                                        /\ merged.px[i] = files[group[k].path].px[i]
                                        /\ merged.px[i] # files[group[k].path].nodata

\* A blend of a collection with two layers of one year raised the error,
\* and the render of the collection after it returned frames, two layers of
\* one year merged into one.
C3_Witness ==
    /\ last.op = "blend"
    /\ last.error = "RuntimeError"
    /\ SameYearLayers
    /\ rs.pc = "done"
    /\ \E g \in DOMAIN rs.layers_by_year : Len(rs.layers_by_year[g]) > 1
    /\ Len(out.frames) >= 1

\* C10: over the crops of a box by the caller, by the workers of render's
\* pool and for the background frame, _init runs once at most.
C10_BoxInitializedOnce == box.inits <= 1

\* an image that a gdaldem process with a non-success status was to write,
\* or that lies over one
FailedImage(path) ==
    \/ path.returncode # 0
    \/ \E k \in DOMAIN path.bottom : path.bottom[k].returncode # 0

\* C11: a non-success status of the gdaldem process is not swallowed: a
\* Layer.render whose process failed returns no frame, neither in a worker
\* nor for the background, and LayerCollection.render returns no frame of
\* such an image.
C11_BackendFailureNotSwallowed ==
    /\ \A t \in DOMAIN pool :
          pool[t].fn = "render" /\ pool[t].done /\ pool[t].error = "none" =>
              \A k \in DOMAIN pool[t].result : ~FailedImage(pool[t].result[k].path)
    /\ rs.pc \in {"merge", "render", "done"} =>
          ~FailedImage(rs.background_frame.path)
    /\ rs.pc = "done" =>
          \A i \in DOMAIN out.frames : ~FailedImage(out.frames[i].path)

\* C12: a blend whose arguments are not complete (layer, mode) pairs, their
\* number odd, raises and returns no layer.
C12_BlendRejectsUnpaired ==
    last.op = "blend" /\ Len(last.args) % 2 = 1 =>
        /\ last.error # "none"
        /\ Len(heap) = Len(last.before)


\* the frames that render returned for a year
FramesOf(year) == {i \in DOMAIN out.frames : out.frames[i].year = year}

\* the frame is the background frame itself, tagged with a year
BareBackground(frame) ==
    /\ frame.path = rs.background_frame.path
    /\ frame.scale = rs.background_frame.scale

\* C14: when render returns over an explicit range of years, each year of
\* the range that the collection has no layer of has one frame, which is
\* the background frame (its image and its scale) tagged with the year,
\* and the frame of a year that the collection has a layer of is not the
\* bare background frame.
C14_MissingYearsGetBackground ==
    rs.pc = "done" /\ ExplicitRange =>
        /\ \A y \in (rs.start_year .. rs.end_year) \ rs.layer_years :
              /\ Cardinality(FramesOf(y)) = 1
              /\ \A i \in FramesOf(y) : BareBackground(out.frames[i])
        /\ \A y \in rs.layer_years :
              \A i \in FramesOf(y) : ~BareBackground(out.frames[i])


\* the layers of the collection that render selects
SelectedLayers ==
    SelectSeq(collection, LAMBDA id : heap[id].year \in rs.render_years)

\* some of the selected layers have an interpretation and some have none
MixedInterpretation ==
    /\ \E i \in DOMAIN SelectedLayers : heap[SelectedLayers[i]].interpretation.none
    /\ \E i \in DOMAIN SelectedLayers : ~heap[SelectedLayers[i]].interpretation.none

\* C15: render of a selection of layers with and without an interpretation
\* returns; its common interpretation has the labels of the interpreted
\* layers, and the layers without an interpretation reach the merge
\* without an interpretation and with the raster they had before the
\* reclassification.
C15_MixedInterpretationRenders ==
    rs.pc # "idle" /\ MixedInterpretation =>
        /\ rs.pc # "failed"
        /\ rs.pc \in {"merge", "render", "done"} =>
              /\ Values(rs.common_interpretation) =
                    UNION {Values(heap[SelectedLayers[i]].interpretation) :
                              i \in {j \in DOMAIN SelectedLayers :
                                        ~heap[SelectedLayers[j]].interpretation.none}}
              /\ \A g \in DOMAIN rs.layers_by_year :
                    \A k \in DOMAIN rs.layers_by_year[g] :
                        LET layer == rs.layers_by_year[g][k]
                        IN  layer.interpretation.none =>
                               \E i \in DOMAIN SelectedLayers :
                                   /\ heap[SelectedLayers[i]].interpretation.none
                                   /\ heap[SelectedLayers[i]].year = layer.year
              /\ Cardinality({<<g, k>> \in (DOMAIN rs.layers_by_year) \X (1 .. MaxLayers) :
                                 /\ k \in DOMAIN rs.layers_by_year[g]
                                 /\ rs.layers_by_year[g][k].interpretation.none}) =
                    Cardinality({i \in DOMAIN SelectedLayers :
                                    heap[SelectedLayers[i]].interpretation.none})


\* the pixel value that the common interpretation gives a label
SharedValue(label) ==
    CHOOSE key \in Keys(rs.common_interpretation) :
        Get(rs.common_interpretation, key) = label

\* the labels of the layers that render hands to reclassify
SharedLabels == UNION {Values(pool[t].args[1].interpretation) : t \in DOMAIN pool}

\* C16: in the reclassification of render, the common interpretation maps
\* the values 1 .. n one to one onto the n labels of the layers; each
\* reclassified layer has the common interpretation; and a pixel of a
\* layer that is not nodata and holds a key of the layer's interpretation
\* holds, in the reclassified layer, the common value of that key's label.
C16_SharedInterpretation ==
    rs.pc = "reclassify" =>
        /\ Keys(rs.common_interpretation) = 1 .. Cardinality(SharedLabels)
        /\ Values(rs.common_interpretation) = SharedLabels
        /\ Len(rs.common_interpretation.items) = Cardinality(SharedLabels)
        /\ \A t \in DOMAIN pool :
              pool[t].done =>
                 /\ pool[t].error = "none"
                 /\ pool[t].result[1].interpretation = rs.common_interpretation
                 /\ LET source == files[pool[t].args[1].path]
                        old == pool[t].args[1].interpretation
                        reclassified == pool[t].newfiles[1]
                    IN  \A i \in DOMAIN source.px :
                        \A key \in Keys(old) :
                            source.px[i] = R(key) /\ source.px[i] # source.nodata =>
                                reclassified.px[i] = R(SharedValue(Get(old, key)))


\* the layers that a task was given
LayersOfTask(task) ==
    IF task.fn = "_merge_layers"
    THEN UNION {{task.args[g][k] : k \in DOMAIN task.args[g]} : g \in DOMAIN task.args}
    ELSE {task.args[k] : k \in DOMAIN task.args}

\* the stages of render in their order
StageOrder ==
    <<"idle", "crop", "convert", "reclassify", "merge", "render", "done">>

StageIndex(pc) == CHOOSE k \in DOMAIN StageOrder : StageOrder[k] = pc

\* a step of render from one stage to a later one, or out of render
StageStep ==
    /\ rs'.pc # rs.pc
    /\ \A t \in DOMAIN pool : pool[t].done
    /\ \A t \in DOMAIN pool' : ~pool'[t].done
    /\ rs'.pc # "failed" => StageIndex(rs.pc) < StageIndex(rs'.pc)

\* a step within a stage: the tasks stay the ones dispatched, and a task
\* that returns has run on the files of the dispatch
TaskStep ==
    /\ rs'.pc = rs.pc
    /\ DOMAIN pool' = DOMAIN pool
    /\ \A t \in DOMAIN pool :
          /\ pool'[t].fn = pool[t].fn
          /\ pool'[t].args = pool[t].args
          /\ pool[t].done => pool'[t] = pool[t]
    /\ rs.pc # "idle" => files' = files

\* C17: the tasks of a stage of render are dispatched when every task of
\* the stage before has returned, and none has started then; within a
\* stage no task is added and a task reads only layers written before its
\* stage was dispatched; the legend is made once, in the step from the
\* returned merges to the dispatch of the renderings.
C17_StagesAreBarriers ==
    [][/\ StageStep \/ TaskStep
       /\ \A t \in DOMAIN pool' :
             \A layer \in LayersOfTask(pool'[t]) : layer.path \in DOMAIN files'
       /\ rs'.legend # rs.legend =>
             /\ rs.legend = BackgroundLegend
             /\ rs.pc = "merge" /\ rs'.pc = "render"
       /\ rs'.pc \in {"render", "done"} /\ rs.pc # rs'.pc /\ rs.pc = "merge" =>
             rs'.legend = create_legend(rs'.working_layers)
       /\ rs.pc \in {"render", "done"} => rs'.legend = rs.legend]_vars

\* render with a box over interpreted layers of two years is at its last
\* stage, one rendering returned and one still to run.
C17_Witness ==
    /\ rs.pc = "render"
    /\ rs.use_box
    /\ ~rs.common_interpretation.none
    /\ \E t, u \in DOMAIN pool : pool[t].done /\ ~pool[u].done
    /\ rs.legend # BackgroundLegend


\* ===================================================== SpecIndicator ======
\* Indicator.render_map_frames, over the lists of raster files that glob
\* finds for the layer pattern (a file is the year its name ends with) and
\* the simulation years of the results provider.

\* the parameters of LayerCollection.__init__
LayerCollectionParameters == {"layers", "background_color", "colorizer"}

\* The truth value of a LayerCollection: the class defines neither __bool__
\* nor __len__, so every instance is true.
CollectionTruth(layers) == TRUE

\* Indicator._find_layers; layers is the list of the collection it returns
find_layers(matched) ==
    IF ~({"palette", "background_color"} \subseteq LayerCollectionParameters)
    THEN [layers |-> <<>>, error |-> "TypeError"]
    ELSE LET layers == [i \in DOMAIN matched |->
                           Layer(i, matched[i], NoInterpretation, "TcPerHa")]
         IN  IF ~CollectionTruth(layers) THEN [layers |-> <<>>, error |-> "IOError"]
             ELSE [layers |-> layers, error |-> "none"]

\* Indicator.render_map_frames: the collection found is rendered over the
\* simulation years; rendered says that LayerCollection.render was called.
render_map_frames(matched) ==
    Only({[layers |-> f.layers, error |-> f.error, rendered |-> f.error = "none"] :
             f \in {find_layers(matched)}})

InitIndicator ==
    /\ \E matched \in UNION {[1 .. k -> Years] : k \in 0 .. MaxLayers},
          start_year, end_year \in Years, bounding_box \in BOOLEAN :
          /\ start_year <= end_year
          /\ inp = [matched |-> matched, simulation_years |-> <<start_year, end_year>>,
                    bounding_box |-> bounding_box]
    /\ out = <<>>
    /\ heap = <<>>
    /\ born = <<>>
    /\ files = <<>>
    /\ last = NoCall
    /\ NoCollection

RenderMapFrames ==
    /\ out = <<>>
    /\ out' = render_map_frames(inp.matched)
    /\ UNCHANGED <<heap, born, files, last, inp, collection, box, pool, rs>>

NextIndicator == RenderMapFrames

SpecIndicator == InitIndicator /\ [][NextIndicator]_vars

\* C13: with no file matching the pattern render_map_frames raises the I/O
\* error of _find_layers and does not call LayerCollection.render; with a
\* file matching, _find_layers raises nothing and returns a collection of
\* one layer per file.
C13_FindLayers ==
    out # <<>> =>
        IF inp.matched = <<>> THEN out.error = "IOError" /\ ~out.rendered
        ELSE out.error = "none" /\ Len(out.layers) = Len(inp.matched)


\* ==================================================== SpecRoundTrip ======
\* layer.convert_units(B).convert_units(A) of a layer in units A, over the
\* pairs of units for which convert_units evaluates one expression over
\* the raster: the area type does not change, or the projection is in
\* metres.

\* the nodata values of the rasters converted
RoundTripNodata == NodataValues \cup {4, 1000}

InitRoundTrip ==
    /\ \E p1, p2 \in Pixels, n \in RoundTripNodata, metres \in BOOLEAN,
          A, B \in Units \ {"Blank"} :
          /\ UnitsValue(A).per_ha = UnitsValue(B).per_ha \/ metres
          /\ files = << [nodata |-> R(n), px |-> <<R(p1), R(p2)>>,
                         metres |-> metres,
                         pixel_size |-> IF metres THEN 200 ELSE 1] >>
          /\ heap = <<Layer(1, 1, NoInterpretation, A)>>
          /\ inp = [A |-> A, B |-> B]
    /\ born = heap
    /\ last = NoCall
    /\ out = <<>>
    /\ NoCollection

\* layer.convert_units(B)
ConvertThere ==
    /\ last.ncalls = 0
    /\ Apply("convert_units", 1, <<inp.B>>, convert_units(heap, files, 1, inp.B))

\* the layer returned, converted to the units A
ConvertBack ==
    /\ last.ncalls = 1
    /\ Apply("convert_units", last.ret, <<inp.A>>,
             convert_units(heap, files, last.ret, inp.A))

NextRoundTrip == ConvertThere \/ ConvertBack

SpecRoundTrip == InitRoundTrip /\ [][NextRoundTrip]_vars

\* C18: the layer that convert_units(B).convert_units(A) returns has, at
\* each pixel at which the original raster holds data, the original value
\* as data, and at each pixel at which the original holds nodata, nodata.
C18_ConvertUnitsRoundTrip ==
    last.ncalls = 2 =>
        LET original == files[1]
            final == files[heap[last.ret].path]
        IN  /\ last.error = "none"
            /\ \A i \in DOMAIN original.px :
                  IF original.px[i] = original.nodata
                  THEN final.px[i] = final.nodata
                  ELSE final.px[i] = original.px[i] /\ final.px[i] # final.nodata


\* =================================================== SpecColorTable ======
\* Layer.render with a legend: a dict, in insertion order, whose keys are
\* single pixel values or (min, max) tuples with None for a bound that is
\* absent.  A bound is a sequence: <<>> for None, <<v>> for the value v.
\* A color is the position of its entry in the legend; 0 is white.

MaxEntries == 2

MaxBound == 2

Bounds == (0 - MaxBound) .. MaxBound

SingleKey(v) == [tuple |-> FALSE, value |-> v, range_min |-> <<>>, range_max |-> <<>>]

RangeKey(range_min, range_max) ==
    [tuple |-> TRUE, value |-> 0, range_min |-> range_min, range_max |-> range_max]

\* a row of the color table: "nv" or a value, a color and its alpha
Row(nv, value, color, alpha) ==
    [nv |-> nv, value |-> value, color |-> color, alpha |-> alpha]

\* The loop of render over legend.items() from item k on: the rows written
\* so far, the value closest to zero so far (<<>> for None) and its color.
RECURSIVE WriteEntries(_, _, _, _, _)
WriteEntries(legend, k, rows, near_zero_value, near_zero_color) ==
    IF k > Len(legend)
    THEN [rows |-> rows, near_zero_color |-> near_zero_color, error |-> "none"]
    ELSE LET value == legend[k].key
             color_str == legend[k].color
         IN  IF value.tuple
             THEN LET range_min == value.range_min
                      range_max == value.range_max
                      written ==
                          rows
                          \o (IF range_min # <<>>
                              THEN <<Row(FALSE, R(range_min[1]), color_str, 255)>>
                              ELSE <<>>)
                          \o (IF range_max # <<>>
                              THEN <<Row(FALSE, R(range_max[1]), color_str, 255)>>
                              ELSE <<>>)
                  IN  IF /\ range_min # <<>> /\ range_min[1] < 0
                         /\ range_max # <<>> /\ range_max[1] > 0
                      THEN WriteEntries(legend, k + 1, written, <<0>>, color_str)
                      ELSE IF range_min = <<>> \/ range_max = <<>>
                      THEN [rows |-> written, near_zero_color |-> near_zero_color,
                            error |-> "TypeError"]
                      ELSE LET min_val == SetMin({Abs(range_min[1]), Abs(range_max[1])})
                           IN  IF near_zero_value = <<>> \/ min_val < near_zero_value[1]
                               THEN WriteEntries(legend, k + 1, written,
                                                 <<min_val>>, color_str)
                               ELSE WriteEntries(legend, k + 1, written,
                                                 near_zero_value, near_zero_color)
             ELSE LET written == Append(rows, Row(FALSE, R(value.value), color_str, 255))
                  IN  IF near_zero_value = <<>> \/ Abs(value.value) < near_zero_value[1]
                      THEN WriteEntries(legend, k + 1, written,
                                        <<Abs(value.value)>>, color_str)
                      ELSE WriteEntries(legend, k + 1, written,
                                        near_zero_value, near_zero_color)

\* the color table that render writes, or the error it raises writing it
ColorTable(legend, transparent) ==
    LET alpha == IF transparent THEN 0 ELSE 255
        head == <<Row(TRUE, R(0), 0, alpha), Row(FALSE, R(0), 0, alpha)>>
    IN  Only({IF w.error # "none" THEN [rows |-> w.rows, error |-> w.error]
              ELSE [rows |-> w.rows \o <<Row(FALSE, Rat(0 - 1, 1000), w.near_zero_color, 255),
                                         Row(FALSE, Rat(1, 1000), w.near_zero_color, 255)>>,
                    error |-> "none"] :
                 w \in {WriteEntries(legend, 1, head, <<>>, 0)}})

LegendKeys ==
    {SingleKey(v) : v \in Bounds}
    \cup {RangeKey(lo, hi) : lo, hi \in {<<>>} \cup {<<v>> : v \in Bounds}}

InitColorTable ==
    /\ \E n \in 1 .. MaxEntries, transparent \in BOOLEAN :
       \E keys \in [1 .. n -> LegendKeys] :
          /\ \A i, j \in 1 .. n : i # j => keys[i] # keys[j]
          /\ \A i \in 1 .. n :
                keys[i].tuple /\ keys[i].range_min # <<>> /\ keys[i].range_max # <<>> =>
                    keys[i].range_min[1] < keys[i].range_max[1]
          /\ inp = [legend |-> [i \in 1 .. n |-> [key |-> keys[i], color |-> i]],
                    transparent |-> transparent]
    /\ files = <<[nodata |-> R(0), px |-> <<R(1)>>, metres |-> TRUE, pixel_size |-> 100]>>
    /\ heap = <<Layer(1, 1, NoInterpretation, "TcPerHa")>>
    /\ born = heap
    /\ last = NoCall
    /\ out = <<>>
    /\ NoCollection

\* layer.render(legend, transparent=..): the table is written and gdaldem
\* run with it; nothing is returned when writing the table raises
RenderLegend ==
    /\ out = <<>>
    /\ \E returncode \in ReturnCodes :
       \E t \in {ColorTable(inp.legend, inp.transparent)} :
          out' = [color_table |-> t.rows, error |-> t.error,
                  frame |-> IF t.error # "none" THEN <<>>
                            ELSE <<Frame(heap[1].year,
                                         Png(heap[1].path, inp.legend,
                                             inp.transparent, returncode),
                                         Scale(files[heap[1].path]))>>]
    /\ UNCHANGED <<heap, born, files, last, inp, collection, box, pool, rs>>

NextColorTable == RenderLegend

SpecColorTable == InitColorTable /\ [][NextColorTable]_vars

\* the bounds that a legend key has
PresentBounds(key) ==
    IF key.tuple
    THEN {key.range_min[i] : i \in DOMAIN key.range_min}
         \cup {key.range_max[i] : i \in DOMAIN key.range_max}
    ELSE {key.value}

\* the key is a range with zero strictly inside
ContainsZero(key) ==
    /\ key.tuple
    /\ \E lo \in PresentBounds(key) : lo < 0
    /\ \E hi \in PresentBounds(key) : hi > 0
    /\ key.range_min # <<>> /\ key.range_max # <<>>

\* the colors of the entries closest to zero
NearZeroColors(legend) ==
    LET straddling == {i \in DOMAIN legend : ContainsZero(legend[i].key)}
        bounded == {i \in DOMAIN legend : PresentBounds(legend[i].key) # {}}
        distance(i) == SetMin({Abs(b) : b \in PresentBounds(legend[i].key)})
    IN  IF straddling # {} THEN {legend[i].color : i \in straddling}
        ELSE {legend[i].color : i \in {j \in bounded :
                                          \A m \in bounded : distance(j) <= distance(m)}}

\* the rows of the table that have the color of an entry
RowsOf(color) == {r \in DOMAIN out.color_table : out.color_table[r].color = color}

\* C19: render of a layer with a legend of one or more entries returns a
\* frame, having written a table with, for each entry, one row of the
\* entry's color per bound the entry has, and as its last two rows the
\* values -0.001 and 0.001 in the color of an entry closest to zero.
C19_ColorTableComplete ==
    out # <<>> =>
        /\ out.error = "none"
        /\ Len(out.frame) = 1
        /\ LET legend == inp.legend
               n == Len(out.color_table)
               guards == {n - 1, n}
           IN  /\ n >= 4
               /\ out.color_table[n - 1].value = Rat(0 - 1, 1000)
               /\ out.color_table[n].value = Rat(1, 1000)
               /\ out.color_table[n - 1].color = out.color_table[n].color
               /\ out.color_table[n].color \in NearZeroColors(legend)
               /\ \A i \in DOMAIN legend :
                     /\ Cardinality(RowsOf(legend[i].color) \ guards)
                           = IF legend[i].key.tuple
                             THEN Len(legend[i].key.range_min)
                                  + Len(legend[i].key.range_max)
                             ELSE 1
                     /\ \A r \in RowsOf(legend[i].color) \ guards :
                           \E b \in PresentBounds(legend[i].key) :
                               out.color_table[r].value = R(b)
               /\ n = 4 + Cardinality(UNION {RowsOf(legend[i].color) \ guards :
                                                i \in DOMAIN legend})

====
